---- MODULE Spec2Model ----
(***************************************************************************)
(* PersonaAI (app.py): history normalisation, prompt assembly, the chat    *)
(* submit handler and the website generation handler, with the output file *)
(* they share.                                                             *)
(*                                                                         *)
(* Python values are records [t, v]: t is the type name, v the payload.    *)
(* A str is the sequence of its characters (one-character strings); the    *)
(* fixed prompt texts are single tokens of such a sequence.                *)
(***************************************************************************)
EXTENDS Integers, Sequences, FiniteSets

VARIABLES
    chatbot,        \* gr.Chatbot value: the conversation the UI owns (a list)
    uploaded_file,  \* gr.File value: the uploaded file, or NoFile
    disk,           \* the file system under OUTPUT_FOLDER: path -> content or Absent
    gen,            \* per request slot: where its generate_website call stands
    calls,          \* number of client.chat.completions.create requests issued
    sent,           \* messages of the most recent create request
    completion,     \* outcome of the most recent create request
    arg,            \* arguments of the most recent handler / function call
    ret,            \* what that call returned (or that it raised)
    order           \* slots in the order their writes reached the file

vars == <<chatbot, uploaded_file, disk, gen, calls, sent, completion, arg, ret, order>>

----------------------------------------------------------------------------
(* Python values *)

Str(s) == [t |-> "str", v |-> s]
PyNone == [t |-> "NoneType", v |-> <<>>]
PyInt == [t |-> "int", v |-> <<>>]
PyList(s) == [t |-> "list", v |-> s]

\* bool(x) for the values above: None, "" and [] are falsy
Truthy(x) == IF x.t \in {"str", "list"} THEN Len(x.v) > 0 ELSE x.t # "NoneType"

\* a history entry: a dict with role and content (m.get gives None for a
\* missing key, written "None" for the role), or something that is no dict
Dict(role, content) == [isdict |-> TRUE, role |-> role, content |-> content]
NotADict == [isdict |-> FALSE, role |-> "None", content |-> PyNone]

----------------------------------------------------------------------------
(* str methods *)

Whitespace == {" ", "\n", "\t"}

Indices(s) == [i \in 1..Len(s) |-> i]

NonBlank(s) == SelectSeq(Indices(s), LAMBDA i : s[i] \notin Whitespace)

\* str.strip(): drop leading and trailing whitespace
strip(s) ==
    LET nb == NonBlank(s)
    IN  IF Len(nb) = 0 THEN <<>> ELSE SubSeq(s, nb[1], nb[Len(nb)])

\* s[:n]
Take(s, n) == SubSeq(s, 1, IF Len(s) < n THEN Len(s) ELSE n)

\* re.sub(r"\n{3,}", "\n\n", s): of a run of newlines only the first two stay
CollapseNewlines(s) ==
    LET third(i) == i >= 3 /\ s[i] = "\n" /\ s[i-1] = "\n" /\ s[i-2] = "\n"
        keep == SelectSeq(Indices(s), LAMBDA i : ~third(i))
    IN  [k \in 1..Len(keep) |-> s[keep[k]]]

RECURSIVE Join(_, _)
\* sep.join(parts)
Join(parts, sep) ==
    IF Len(parts) = 0 THEN <<>>
    ELSE IF Len(parts) = 1 THEN parts[1]
    ELSE parts[1] \o sep \o Join(Tail(parts), sep)

----------------------------------------------------------------------------
(* Helpers *)

clean_text(text) ==
    CollapseNewlines(strip(IF Truthy(text) THEN text.v ELSE <<>>))

\* an uploaded file: its extension, whether reading/parsing it raises, and
\* its parts (the text of a .txt/.md, the paragraphs of a .docx, the pages
\* of a .pdf, each a Python value: extract_text() may give None)
NoFile == [ext |-> "", raises |-> FALSE, parts |-> <<>>]

ParagraphTexts(parts) ==
    LET kept == SelectSeq(parts, LAMBDA p : Truthy(p) /\ Len(strip(p.v)) > 0)
    IN  [k \in 1..Len(kept) |-> kept[k].v]

PageTexts(parts) ==
    [k \in 1..Len(parts) |-> IF Truthy(parts[k]) THEN parts[k].v ELSE <<>>]

\* str.lower() of the extensions that occur
lower(ext) == IF ext = ".TXT" THEN ".txt" ELSE ext

file_to_text(file_path) ==
    IF file_path = NoFile THEN <<>>
    ELSE LET ext == lower(file_path.ext)
         IN  IF ext \in {".txt", ".md"}
             THEN IF file_path.raises THEN <<>>
                  ELSE clean_text(file_path.parts[1])
             ELSE IF ext = ".docx"
             THEN IF file_path.raises THEN <<>>
                  ELSE clean_text(Str(Join(ParagraphTexts(file_path.parts), <<"\n">>)))
             ELSE IF ext = ".pdf"
             THEN IF file_path.raises THEN <<>>
                  ELSE clean_text(Str(Join(PageTexts(file_path.parts), <<"\n">>)))
             ELSE <<>>

RECURSIVE NormalizeItems_KeepRaw(_)
\* variant: the content is tested stripped but stored as it came
NormalizeItems_KeepRaw(items) ==
    IF Len(items) = 0 THEN <<>>
    ELSE LET m == Head(items)
             rest == NormalizeItems_KeepRaw(Tail(items))
         IN  IF ~m.isdict THEN rest
             ELSE IF /\ m.role \in {"user", "assistant"}
                     /\ m.content.t = "str"
                     /\ Len(strip(m.content.v)) > 0
                  THEN <<Dict(m.role, m.content)>> \o rest
                  ELSE rest

RECURSIVE NormalizeItems_TruthyContent(_)
\* variant: the test is "and content" instead of "and content.strip()"
NormalizeItems_TruthyContent(items) ==
    IF Len(items) = 0 THEN <<>>
    ELSE LET m == Head(items)
             rest == NormalizeItems_TruthyContent(Tail(items))
         IN  IF ~m.isdict THEN rest
             ELSE IF /\ m.role \in {"user", "assistant"}
                     /\ m.content.t = "str"
                     /\ Len(m.content.v) > 0
                  THEN <<Dict(m.role, Str(strip(m.content.v)))>> \o rest
                  ELSE rest

RECURSIVE NormalizeItems(_)
NormalizeItems(items) ==
    IF Len(items) = 0 THEN <<>>
    ELSE LET m == Head(items)
             rest == NormalizeItems(Tail(items))
         IN  IF ~m.isdict THEN rest
             ELSE IF /\ m.role \in {"user", "assistant"}
                     /\ m.content.t = "str"
                     /\ Len(strip(m.content.v)) > 0
                  THEN <<Dict(m.role, Str(strip(m.content.v)))>> \o rest
                  ELSE rest

\* history_messages is a Python value (a list, or None); the result is a list
normalize_history(history_messages) ==
    NormalizeItems(IF Truthy(history_messages) THEN history_messages.v ELSE <<>>)

TranscriptLine(m) ==
    IF m.role = "user" THEN <<"User: ">> \o m.content.v
    ELSE <<"Assistant: ">> \o m.content.v

history_to_transcript(history_messages) ==
    LET turns == normalize_history(history_messages)
    IN  Join([k \in 1..Len(turns) |-> TranscriptLine(turns[k])], <<"\n">>)

----------------------------------------------------------------------------
(* OpenAI calls *)

INDEX_HTML_PATH == "generated_sites/index.html"
SYSTEM_PROMPT == <<"SYSTEM_PROMPT">>
WEBSITE_SYSTEM_PROMPT == <<"WEBSITE_SYSTEM_PROMPT">>
CONTEXT_HEADER == <<"Additional user context from uploaded resume/profile:", "\n">>
ChatContextLimit == 6000
WebsiteContextLimit == 8000

\* variant: the document text is cut with the website prompt's limit
ChatMessages_WebsiteLimit(user_message, history_messages, uploaded_file_path) ==
    LET history == normalize_history(history_messages)
        file_text == file_to_text(uploaded_file_path)
    IN  <<Dict("system", Str(SYSTEM_PROMPT))>>
        \o (IF Len(file_text) > 0
            THEN <<Dict("system",
                        Str(CONTEXT_HEADER \o Take(file_text, WebsiteContextLimit)))>>
            ELSE <<>>)
        \o history
        \o <<Dict("user", user_message)>>

\* the messages persona_chat hands to client.chat.completions.create
ChatMessages(user_message, history_messages, uploaded_file_path) ==
    LET history == normalize_history(history_messages)
        file_text == file_to_text(uploaded_file_path)
    IN  <<Dict("system", Str(SYSTEM_PROMPT))>>
        \o (IF Len(file_text) > 0
            THEN <<Dict("system",
                        Str(CONTEXT_HEADER \o Take(file_text, ChatContextLimit)))>>
            ELSE <<>>)
        \o history
        \o <<Dict("user", user_message)>>

\* persona_chat, the create request raising or answering with content:
\* the request it issued, and the reply it returns unless it raises
\* (completion.choices[0].message.content.strip(): None has no strip)
persona_chat(user_message, history_messages, uploaded_file_path, raised, content) ==
    LET fails == raised \/ content.t # "str"
    IN  [ messages |-> ChatMessages(user_message, history_messages, uploaded_file_path),
          raised |-> fails,
          reply |-> IF fails THEN <<>> ELSE strip(content.v) ]

\* the messages generate_website hands to client.chat.completions.create
WebsiteMessages(history_messages, uploaded_file_path) ==
    LET history == normalize_history(history_messages)
        convo_text == history_to_transcript(PyList(history))
        file_text == file_to_text(uploaded_file_path)
    IN  << Dict("system", Str(WEBSITE_SYSTEM_PROMPT)),
           Dict("user", Str(<<"Chat transcript:", "\n">> \o convo_text
                            \o <<"\n", "\n", "Resume/Profile text:", "\n">>
                            \o Take(file_text, WebsiteContextLimit))) >>

\* (completion.choices[0].message.content or "").strip()
WebsiteHtml(content) == strip(IF Truthy(content) THEN content.v ELSE <<>>)

----------------------------------------------------------------------------
(* The file system: open(path, "w") creates or truncates; the data is then *)
(* written in one write at the descriptor's own offset, which is 0.        *)

Absent == [t |-> "absent", v |-> <<>>]

\* variant: the file is opened without truncation
OpenForWrite_NoTruncate(d, path) ==
    IF d[path] = Absent THEN [d EXCEPT ![path] = Str(<<>>)] ELSE d

OpenForWrite(d, path) == [d EXCEPT ![path] = Str(<<>>)]

\* variant: the file is opened for appending
WriteAtStart_Append(d, path, data) ==
    [d EXCEPT ![path] = Str(d[path].v \o data)]

\* bytes 1..Len(data) are replaced, what lies beyond them stays
WriteAtStart(d, path, data) ==
    LET old == d[path].v
    IN  [d EXCEPT ![path] =
            Str(data \o SubSeq(old, Len(data) + 1, Len(old)))]

----------------------------------------------------------------------------
(* Inputs *)

MaxCalls == 2      \* create requests per behaviour
MaxHist == 2       \* length of a raw history handed to normalize_history

Rep(c, n) == [i \in 1..n |-> c]

Texts ==
    { <<>>, <<" ">>, <<"a">>, <<" ", "a">>, <<"a", "\n">>,
      <<"\t", "a", " ", "b", " ">> }

Contents == {Str(s) : s \in Texts} \cup {PyNone, PyInt}
Roles == {"user", "assistant", "system", "None"}
RawEntries == {Dict(r, c) : r \in Roles, c \in Contents} \cup {NotADict}

SeqsUpTo(S, n) == UNION {[1..k -> S] : k \in 0..n}

RawHistories == {PyNone} \cup {PyList(h) : h \in SeqsUpTo(RawEntries, MaxHist)}

\* conversations the Chatbot component may hand to a handler first: the
\* handlers take what it holds and normalize_history expects entries that
\* are no well-formed turns
InitChats ==
    { <<>>,
      <<NotADict>>,
      <<Dict("user", Str(<<"a">>)), Dict("assistant", Str(<<"b">>))>>,
      <<Dict("user", Str(<<" ", "a">>)), Dict("system", Str(<<"a">>))>>,
      <<Dict("assistant", Str(<<" ">>)), Dict("user", PyInt)>> }

UserMessages ==
    {PyNone} \cup {Str(s) : s \in {<<>>, <<" ">>, <<"a">>, <<"\n", "b", " ">>}}

\* what choices[0].message.content can be
ReplyContents ==
    {PyNone} \cup {Str(s) : s \in {<<" ">>, <<"a">>, <<" ", "b", "c", "\n">>}}

TextFile(ext, s) == [ext |-> ext, raises |-> FALSE, parts |-> <<Str(s)>>]

Files ==
    { NoFile,
      TextFile(".txt", <<" ", "a", "\n", "\n", "\n", "\n", "b", "\n">>) }

PromptFiles ==
    Files \cup
    { TextFile(".csv", <<"a">>),
      TextFile(".md", <<" ", "\n">>),
      TextFile(".TXT", <<"a">>),
      [ext |-> ".txt", raises |-> TRUE, parts |-> <<Str(<<"a">>)>>],
      [ext |-> ".pdf", raises |-> FALSE, parts |-> <<Str(<<"p">>), PyNone>>],
      [ext |-> ".pdf", raises |-> TRUE, parts |-> <<>>],
      [ext |-> ".docx", raises |-> FALSE,
       parts |-> <<Str(<<"a">>), Str(<<" ">>), Str(<<"b">>)>>],
      [ext |-> ".docx", raises |-> TRUE, parts |-> <<>>],
      TextFile(".txt", Rep("a", ChatContextLimit - 1)),
      TextFile(".txt", Rep("a", ChatContextLimit) \o <<"b">>),
      TextFile(".md", <<" ">> \o Rep("a", ChatContextLimit) \o <<"b", "c">>) }

Paths == {INDEX_HTML_PATH, "generated_sites/index_1.html"}
Slots == {1, 2}
\* the slot the UI layer uses when it runs one action at a time
Serial == {1}

NoCompletion == [raised |-> FALSE, content |-> PyNone]
NoCall == [fn |-> "none", user_message |-> PyNone, history_messages |-> PyNone,
           calls |-> 0]
NoReturn == [fn |-> "none", slot |-> 0, times |-> 0, raised |-> FALSE,
             msg |-> PyNone, history |-> <<>>, path |-> ""]
Idle == [pc |-> "idle", html |-> <<>>, n |-> 0, before |-> Absent]

----------------------------------------------------------------------------
(* Gradio handlers *)

AllIdle == \A p \in Slots : gen[p].pc = "idle"

\* variant: a failed request is caught and the user turn kept
handle_submit_PartialCommit(user_message, history_messages, uploaded_file_path, raised, content) ==
    LET history == normalize_history(history_messages)
    IN  IF ~Truthy(user_message) \/ Len(strip(user_message.v)) = 0
        THEN [requests |-> <<>>, raised |-> FALSE, msg |-> Str(<<>>),
              history |-> history]
        ELSE LET stripped == Str(strip(user_message.v))
                 chat == persona_chat(stripped, PyList(history),
                                      uploaded_file_path, raised, content)
             IN  IF chat.raised
                 THEN [requests |-> <<chat.messages>>, raised |-> FALSE,
                       msg |-> Str(<<>>),
                       history |-> history \o <<Dict("user", stripped)>>]
                 ELSE [requests |-> <<chat.messages>>, raised |-> FALSE,
                       msg |-> Str(<<>>),
                       history |-> history
                                   \o << Dict("user", stripped),
                                         Dict("assistant", Str(chat.reply)) >>]

\* variant: the message is tested without strip
handle_submit_TruthyCheck(user_message, history_messages, uploaded_file_path, raised, content) ==
    LET history == normalize_history(history_messages)
    IN  IF ~Truthy(user_message)
        THEN [requests |-> <<>>, raised |-> FALSE, msg |-> Str(<<>>),
              history |-> history]
        ELSE LET stripped == Str(strip(user_message.v))
                 chat == persona_chat(stripped, PyList(history),
                                      uploaded_file_path, raised, content)
             IN  IF chat.raised
                 THEN [requests |-> <<chat.messages>>, raised |-> TRUE,
                       msg |-> PyNone, history |-> <<>>]
                 ELSE [requests |-> <<chat.messages>>, raised |-> FALSE,
                       msg |-> Str(<<>>),
                       history |-> history
                                   \o << Dict("user", stripped),
                                         Dict("assistant", Str(chat.reply)) >>]

\* variant: the user turn carries the message as typed
handle_submit_RawUserTurn(user_message, history_messages, uploaded_file_path, raised, content) ==
    LET history == normalize_history(history_messages)
    IN  IF ~Truthy(user_message) \/ Len(strip(user_message.v)) = 0
        THEN [requests |-> <<>>, raised |-> FALSE, msg |-> Str(<<>>),
              history |-> history]
        ELSE LET stripped == Str(strip(user_message.v))
                 chat == persona_chat(stripped, PyList(history),
                                      uploaded_file_path, raised, content)
             IN  IF chat.raised
                 THEN [requests |-> <<chat.messages>>, raised |-> TRUE,
                       msg |-> PyNone, history |-> <<>>]
                 ELSE [requests |-> <<chat.messages>>, raised |-> FALSE,
                       msg |-> Str(<<>>),
                       history |-> history
                                   \o << Dict("user", user_message),
                                         Dict("assistant", Str(chat.reply)) >>]

\* handle_submit, the create request (if one is issued) raising or answering
\* with content: the requests issued, and what is returned unless it raises
handle_submit(user_message, history_messages, uploaded_file_path, raised, content) ==
    LET history == normalize_history(history_messages)
    IN  IF ~Truthy(user_message) \/ Len(strip(user_message.v)) = 0
        THEN [requests |-> <<>>, raised |-> FALSE, msg |-> Str(<<>>),
              history |-> history]
        ELSE LET stripped == Str(strip(user_message.v))
                 chat == persona_chat(stripped, PyList(history),
                                      uploaded_file_path, raised, content)
             IN  IF chat.raised
                 THEN [requests |-> <<chat.messages>>, raised |-> TRUE,
                       msg |-> PyNone, history |-> <<>>]
                 ELSE [requests |-> <<chat.messages>>, raised |-> FALSE,
                       msg |-> Str(<<>>),
                       history |-> history
                                   \o << Dict("user", stripped),
                                         Dict("assistant", Str(chat.reply)) >>]

\* submit_btn.click: handle_submit on the textbox, the chatbot and the file;
\* its outputs go to the textbox and the chatbot, and on an exception Gradio
\* leaves them as they were
Submit(user_message, raised, content) ==
    /\ AllIdle
    /\ \E r \in {handle_submit(user_message, PyList(chatbot), uploaded_file,
                               raised, content)} :
        LET issued == Len(r.requests) > 0
        IN
        /\ calls + Len(r.requests) <= MaxCalls
        /\ arg' = [fn |-> "handle_submit", user_message |-> user_message,
                   history_messages |-> PyList(chatbot), calls |-> calls]
        /\ calls' = calls + Len(r.requests)
        /\ sent' = IF issued THEN r.requests[1] ELSE sent
        /\ completion' = IF issued THEN [raised |-> raised, content |-> content]
                         ELSE completion
        /\ ret' = [NoReturn EXCEPT !.fn = "handle_submit", !.raised = r.raised,
                                   !.msg = r.msg, !.history = r.history]
        /\ chatbot' = IF r.raised THEN chatbot ELSE r.history
        /\ UNCHANGED <<uploaded_file, disk, gen, order>>

\* generate_website up to the create request
GenerateCall(p) ==
    /\ gen[p].pc = "idle"
    /\ calls < MaxCalls
    /\ calls' = calls + 1
    /\ sent' = WebsiteMessages(PyList(chatbot), uploaded_file)
    /\ gen' = [gen EXCEPT ![p] = [@ EXCEPT !.pc = "create", !.html = <<>>,
                                          !.before = disk[INDEX_HTML_PATH]]]
    /\ UNCHANGED <<chatbot, uploaded_file, disk, completion, arg, ret, order>>

\* variant: the exception is caught and an empty page written
GenerateRaise_WritesEmpty(p) ==
    /\ gen[p].pc = "create"
    /\ completion' = [raised |-> TRUE, content |-> PyNone]
    /\ gen' = [gen EXCEPT ![p].pc = "idle"]
    /\ disk' = OpenForWrite(disk, INDEX_HTML_PATH)
    /\ ret' = [NoReturn EXCEPT !.fn = "generate_website", !.slot = p,
                               !.raised = TRUE]
    /\ UNCHANGED <<chatbot, uploaded_file, calls, sent, arg, order>>

\* the create request raises: generate_website ends there
GenerateRaise(p) ==
    /\ gen[p].pc = "create"
    /\ completion' = [raised |-> TRUE, content |-> PyNone]
    /\ gen' = [gen EXCEPT ![p].pc = "idle"]
    /\ ret' = [NoReturn EXCEPT !.fn = "generate_website", !.slot = p,
                               !.raised = TRUE]
    /\ UNCHANGED <<chatbot, uploaded_file, disk, calls, sent, arg, order>>

\* the create request answers
GenerateReply(p, content) ==
    /\ gen[p].pc = "create"
    /\ completion' = [raised |-> FALSE, content |-> content]
    /\ gen' = [gen EXCEPT ![p] = [@ EXCEPT !.pc = "open",
                                          !.html = WebsiteHtml(content)]]
    /\ UNCHANGED <<chatbot, uploaded_file, disk, calls, sent, arg, ret, order>>

\* open(INDEX_HTML_PATH, "w", encoding="utf-8")
GenerateOpen(p) ==
    /\ gen[p].pc = "open"
    /\ disk' = OpenForWrite(disk, INDEX_HTML_PATH)
    /\ gen' = [gen EXCEPT ![p].pc = "write"]
    /\ UNCHANGED <<chatbot, uploaded_file, calls, sent, completion, arg, ret, order>>

\* f.write(html): the data reaches the file (at the latest when f closes)
GenerateWrite(p) ==
    /\ gen[p].pc = "write"
    /\ disk' = WriteAtStart(disk, INDEX_HTML_PATH, gen[p].html)
    /\ order' = Append(order, p)
    /\ gen' = [gen EXCEPT ![p].pc = "close"]
    /\ UNCHANGED <<chatbot, uploaded_file, calls, sent, completion, arg, ret>>

\* f is closed; return INDEX_HTML_PATH
GenerateClose(p) ==
    /\ gen[p].pc = "close"
    /\ gen' = [gen EXCEPT ![p] = [@ EXCEPT !.pc = "idle", !.n = @ + 1]]
    /\ ret' = [NoReturn EXCEPT !.fn = "generate_website", !.slot = p,
                               !.path = INDEX_HTML_PATH]
    /\ UNCHANGED <<chatbot, uploaded_file, disk, calls, sent, completion, arg, order>>

----------------------------------------------------------------------------
(* The application, the UI layer serialising the user's actions *)

InitDisk ==
    disk \in {[p \in Paths |-> Absent],
              [p \in Paths |-> IF p = INDEX_HTML_PATH
                               THEN Str(<<"o", "l", "d">>) ELSE Absent]}

InitRest ==
    /\ gen = [p \in Slots |-> Idle]
    /\ calls = 0
    /\ sent = <<>>
    /\ completion = NoCompletion
    /\ ret = NoReturn
    /\ order = <<>>

Init ==
    /\ chatbot \in InitChats
    /\ uploaded_file \in Files
    /\ disk = [p \in Paths |-> Absent]
    /\ arg = NoCall
    /\ InitRest

Next ==
    \/ \E m \in UserMessages, c \in ReplyContents : Submit(m, FALSE, c)
    \/ \E m \in UserMessages : Submit(m, TRUE, PyNone)
    \/ \E p \in Serial : AllIdle /\ GenerateCall(p)
    \/ \E p \in Serial : GenerateRaise(p)
    \/ \E p \in Serial, c \in ReplyContents : GenerateReply(p, c)
    \/ \E p \in Serial : GenerateOpen(p)
    \/ \E p \in Serial : GenerateWrite(p)
    \/ \E p \in Serial : GenerateClose(p)

Spec == Init /\ [][Next]_vars

----------------------------------------------------------------------------
(* Two generate_website calls running concurrently, nothing serialising    *)
(* them: each slot makes one call.                                         *)

InitRace ==
    /\ chatbot \in {<<>>, <<Dict("user", Str(<<"a">>)), Dict("assistant", Str(<<"b">>))>>}
    /\ uploaded_file = NoFile
    /\ InitDisk
    /\ arg = NoCall
    /\ InitRest

NextRace ==
    \/ \E p \in Slots : gen[p].n = 0 /\ GenerateCall(p)
    \/ \E p \in Slots : GenerateRaise(p)
    \/ \E p \in Slots, c \in ReplyContents : GenerateReply(p, c)
    \/ \E p \in Slots : GenerateOpen(p)
    \/ \E p \in Slots : GenerateWrite(p)
    \/ \E p \in Slots : GenerateClose(p)

SpecRace == InitRace /\ [][NextRace]_vars

----------------------------------------------------------------------------
(* normalize_history applied to a raw history, and again to its own result *)
(* (handle_submit then persona_chat, generate_website then                 *)
(* history_to_transcript)                                                  *)

NormalizeOnce ==
    /\ ret.fn = "none"
    /\ ret' = [NoReturn EXCEPT !.fn = "normalize_history", !.times = 1,
                 !.history = normalize_history(arg.history_messages)]
    /\ UNCHANGED <<chatbot, uploaded_file, disk, gen, calls, sent, completion,
                   arg, order>>

NormalizeAgain ==
    /\ ret.fn = "normalize_history" /\ ret.times = 1
    /\ arg' = [arg EXCEPT !.history_messages = PyList(ret.history)]
    /\ ret' = [ret EXCEPT !.times = 2,
                 !.history = normalize_history(PyList(ret.history))]
    /\ UNCHANGED <<chatbot, uploaded_file, disk, gen, calls, sent, completion,
                   order>>

InitNormalize ==
    /\ arg \in {[NoCall EXCEPT !.fn = "normalize_history", !.history_messages = h]
                  : h \in RawHistories}
    /\ chatbot = <<>>
    /\ uploaded_file = NoFile
    /\ disk = [p \in Paths |-> Absent]
    /\ InitRest

NextNormalize == NormalizeOnce \/ NormalizeAgain

SpecNormalize == InitNormalize /\ [][NextNormalize]_vars

----------------------------------------------------------------------------
(* persona_chat on its own arguments *)

PersonaChat(raised, content) ==
    \E r \in {persona_chat(arg.user_message, arg.history_messages,
                           uploaded_file, raised, content)} :
        /\ ret.fn = "none"
        /\ calls' = calls + 1
        /\ sent' = r.messages
        /\ completion' = [raised |-> raised, content |-> content]
        /\ ret' = [NoReturn EXCEPT !.fn = "persona_chat", !.raised = r.raised,
                                   !.msg = IF r.raised THEN PyNone ELSE Str(r.reply)]
        /\ UNCHANGED <<chatbot, uploaded_file, disk, gen, arg, order>>

InitPrompt ==
    /\ arg \in {[NoCall EXCEPT !.fn = "persona_chat", !.user_message = Str(m),
                               !.history_messages = h]
                  : m \in {<<>>, <<"a">>, <<" ", "a">>},
                    h \in {PyNone} \cup {PyList(c) : c \in InitChats}}
    /\ uploaded_file \in PromptFiles
    /\ chatbot = <<>>
    /\ disk = [p \in Paths |-> Absent]
    /\ InitRest

NextPrompt ==
    \/ \E c \in ReplyContents : PersonaChat(FALSE, c)
    \/ PersonaChat(TRUE, PyNone)

SpecPrompt == InitPrompt /\ [][NextPrompt]_vars

----------------------------------------------------------------------------
(* What the properties are stated with *)

Blank(s) == \A i \in 1..Len(s) : s[i] \in Whitespace

\* s without its leading and trailing whitespace
Trimmed(s) ==
    LET I == {i \in 1..Len(s) : s[i] \notin Whitespace}
    IN  IF I = {} THEN <<>>
        ELSE SubSeq(s, CHOOSE i \in I : \A j \in I : i <= j,
                       CHOOSE i \in I : \A j \in I : i >= j)

\* an entry the normalizer is to keep
Kept(m) ==
    /\ m.isdict
    /\ m.role \in {"user", "assistant"}
    /\ m.content.t = "str"
    /\ ~Blank(m.content.v)

\* a Turn of the data model: a kept entry whose content is trimmed
IsTurn(m) == Kept(m) /\ m.content.v = Trimmed(m.content.v)

\* the kept entries of a raw history, trimmed, in their order
KeptTurns(x) ==
    LET items == IF x.t = "list" THEN x.v ELSE <<>>
        kept == SelectSeq(items, Kept)
    IN  [k \in 1..Len(kept) |-> Dict(kept[k].role, Str(Trimmed(kept[k].content.v)))]

EmptyMessage(m) == m.t # "str" \/ Blank(m.v)

\* the handler fn has returned (or raised) and nothing has happened since
Returned(fn) == AllIdle /\ ret.fn = fn

\* the last handle_submit issued a create request
Requested == calls = arg.calls + 1

\* the text of a create response (no text: the empty text)
ResponseText(c) == IF c.t = "str" THEN c.v ELSE <<>>

BothDone == \A p \in Slots : gen[p].pc = "idle" /\ gen[p].n = 1

----------------------------------------------------------------------------
(* Properties, Spec *)

\* C1: when the create request of a handle_submit with a non-empty message
\* fails, the call raises, returns no history, and the conversation is what
\* it was; after any handle_submit the conversation is the normalized
\* history, alone or followed by a user turn and an assistant turn together.
C1_FailedSubmitCommitsNothing ==
    Returned("handle_submit") =>
        LET h == KeptTurns(arg.history_messages)
            n == Len(h)
        IN  /\ (Requested /\ (completion.raised \/ completion.content.t # "str"))
                  => ret.raised
            /\ ret.raised =>
                  /\ chatbot = arg.history_messages.v
                  /\ ret.history = <<>>
                  /\ ret.msg = PyNone
            /\ ~ret.raised =>
                  /\ chatbot = ret.history
                  /\ SubSeq(chatbot, 1, n) = h
                  /\ \/ Len(chatbot) = n
                     \/ /\ Len(chatbot) = n + 2
                        /\ chatbot[n + 1].role = "user"
                        /\ chatbot[n + 2].role = "assistant"

C1_Witness ==
    /\ Returned("handle_submit")
    /\ Requested /\ completion.raised /\ ret.raised
    /\ ~EmptyMessage(arg.user_message)
    /\ Len(chatbot) > 0

\* C2 as claimed: a handle_submit with an empty or whitespace-only message
\* returns ("", history) with the history it was given, and issues no
\* create request.
C2_EmptySubmitReturnsHistoryUnchanged ==
    (Returned("handle_submit") /\ EmptyMessage(arg.user_message)) =>
        /\ ret.msg = Str(<<>>)
        /\ ret.history = arg.history_messages.v
        /\ calls = arg.calls

\* C2 as amended: a handle_submit with an empty or whitespace-only message
\* returns ("", normalize(history)) and issues no create request; the
\* history comes back as given when all its entries are Turns already.
C2_EmptySubmitReturnsNormalizedHistory ==
    (Returned("handle_submit") /\ EmptyMessage(arg.user_message)) =>
        /\ ~ret.raised
        /\ ret.msg = Str(<<>>)
        /\ ret.history = KeptTurns(arg.history_messages)
        /\ chatbot = ret.history
        /\ calls = arg.calls
        /\ (\A i \in 1..Len(arg.history_messages.v) :
                IsTurn(arg.history_messages.v[i]))
              => ret.history = arg.history_messages.v

C2_Witness ==
    /\ Returned("handle_submit")
    /\ arg.user_message = Str(<<" ">>)
    /\ Len(ret.history) > 0
    /\ ret.history # arg.history_messages.v

\* C3: a handle_submit with a message that is non-empty after trimming,
\* answered with text r, returns ("", H): H is the normalized history, then
\* the user turn with the trimmed message, then the assistant turn with the
\* trimmed r.
C3_SubmitAppendsUserThenAssistant ==
    ( /\ Returned("handle_submit")
      /\ ~EmptyMessage(arg.user_message)
      /\ ~completion.raised /\ completion.content.t = "str" ) =>
        /\ Requested
        /\ ~ret.raised
        /\ ret.msg = Str(<<>>)
        /\ ret.history =
              KeptTurns(arg.history_messages)
              \o << Dict("user", Str(Trimmed(arg.user_message.v))),
                    Dict("assistant", Str(Trimmed(completion.content.v))) >>

C3_Witness ==
    /\ Returned("handle_submit")
    /\ Len(arg.history_messages.v) = 2
    /\ Len(ret.history) = 3
    /\ ret.history[2] = Dict("user", Str(<<"b">>))
    /\ ret.history[3] = Dict("assistant", Str(<<"b", "c">>))

\* C4: every turn of a conversation handle_submit returns has role user
\* or assistant and content that is neither empty nor whitespace-only.
C4_ReturnedTurnsAreTurns ==
    (Returned("handle_submit") /\ ~ret.raised) =>
        \A i \in 1..Len(ret.history) : IsTurn(ret.history[i])

\* C5: after each generate_website call that returns, the path returned is
\* the fixed one, the file there holds exactly the trimmed response of that
\* call, and no other file was written.
C5_FileIsTrimmedResponse ==
    (Returned("generate_website") /\ ~ret.raised) =>
        /\ ret.path = INDEX_HTML_PATH
        /\ disk[INDEX_HTML_PATH] = Str(Trimmed(ResponseText(completion.content)))
        /\ \A q \in Paths \ {INDEX_HTML_PATH} : disk[q] = Absent

C5_Witness ==
    /\ Returned("generate_website") /\ ~ret.raised
    /\ gen[ret.slot].before = Str(<<"b", "c">>)
    /\ completion.content = Str(<<"a">>)
    /\ disk[INDEX_HTML_PATH] = Str(<<"a">>)

\* C10: while a generate_website call waits for its create request, and
\* when that request has failed, the output file is as it was when the
\* call began (absent, or the last generation), and no path is returned.
C10_FailedGenerateLeavesFile ==
    /\ \A p \in Serial : gen[p].pc = "create" =>
          disk[INDEX_HTML_PATH] = gen[p].before
    /\ (Returned("generate_website") /\ ret.raised) =>
          /\ disk[INDEX_HTML_PATH] = gen[ret.slot].before
          /\ ret.path = ""
          /\ \A q \in Paths \ {INDEX_HTML_PATH} : disk[q] = Absent

C10_Witness ==
    /\ Returned("generate_website") /\ ret.raised
    /\ completion.raised
    /\ disk[INDEX_HTML_PATH] = Str(<<"b", "c">>)

----------------------------------------------------------------------------
(* Properties, SpecRace *)

LastWriter == order[Len(order)]

\* C6 as claimed, in what it says at the least: once both concurrent calls
\* have completed, the file is the trimmed response of one of the two
\* calls, never a mixture (the claim also names which: the last writer).
C6_NeverAMixture ==
    BothDone => \E p \in Slots : disk[INDEX_HTML_PATH] = Str(gen[p].html)

\* C6 as amended: once both concurrent calls have completed, the file
\* starts with the whole trimmed response of the call that wrote last; it is
\* that response alone, or, when the other call's response is longer, that
\* response followed by the rest of the other call's response.
C6_LastWriteWinsItsPrefix ==
    BothDone =>
        LET w == gen[LastWriter].html
            o == gen[CHOOSE p \in Slots : p # LastWriter].html
            f == disk[INDEX_HTML_PATH]
        IN  /\ f.t = "str"
            /\ \/ f.v = w
               \/ /\ Len(o) > Len(w)
                  /\ f.v = w \o SubSeq(o, Len(w) + 1, Len(o))

C6_Witness ==
    /\ BothDone
    /\ gen[LastWriter].html = <<"a">>
    /\ disk[INDEX_HTML_PATH] = Str(<<"a", "c">>)

----------------------------------------------------------------------------
(* Properties, SpecNormalize *)

\* C7: normalize_history returns exactly the entries that are dicts with
\* role user or assistant and text content that is non-empty after
\* trimming, each with its content trimmed, in their order, and raises for
\* no input.
C7_NormalizeKeepsExactlyTheTurns ==
    (ret.fn = "normalize_history" /\ ret.times = 1) =>
        /\ ~ret.raised
        /\ ret.history = KeptTurns(arg.history_messages)
        /\ \A i \in 1..Len(ret.history) : IsTurn(ret.history[i])

C7_Witness ==
    /\ ret.fn = "normalize_history" /\ ret.times = 1
    /\ arg.history_messages =
          PyList(<< Dict("system", Str(<<"a">>)),
                    Dict("user", Str(<<"\t", "a", " ", "b", " ">>)) >>)
    /\ ret.history = << Dict("user", Str(<<"a", " ", "b">>)) >>

\* C8: normalize_history applied to its own result returns that result.
C8_NormalizeIdempotent ==
    (ret.fn = "normalize_history" /\ ret.times = 2) =>
        ret.history = arg.history_messages.v

C8_Witness ==
    /\ ret.fn = "normalize_history" /\ ret.times = 2
    /\ Len(ret.history) = 2
    /\ ret.history[1].content = Str(<<"a", " ", "b">>)

----------------------------------------------------------------------------
(* Properties, SpecPrompt *)

HasContextHeader(m) ==
    /\ m.role = "system"
    /\ Len(m.content.v) >= Len(CONTEXT_HEADER)
    /\ SubSeq(m.content.v, 1, Len(CONTEXT_HEADER)) = CONTEXT_HEADER

\* C9: the messages persona_chat sends are: the persona system message;
\* then, if and only if the document text is non-empty, one system message
\* of the context header followed by the first 6000 characters of the
\* document text; then the normalized history in order; then the user
\* message.
C9_ChatPromptShape ==
    ret.fn = "persona_chat" =>
        LET doc == file_to_text(uploaded_file)
            h == KeptTurns(arg.history_messages)
            k == IF Len(doc) > 0 THEN 2 ELSE 1
            cut == IF Len(doc) < ChatContextLimit THEN Len(doc) ELSE ChatContextLimit
        IN  /\ Len(sent) = k + Len(h) + 1
            /\ sent[1] = Dict("system", Str(SYSTEM_PROMPT))
            /\ Len(doc) > 0 =>
                  /\ HasContextHeader(sent[2])
                  /\ Len(sent[2].content.v) = Len(CONTEXT_HEADER) + cut
                  /\ \A i \in 1..cut :
                        sent[2].content.v[Len(CONTEXT_HEADER) + i] = doc[i]
            /\ Cardinality({i \in 1..Len(sent) : HasContextHeader(sent[i])}) = k - 1
            /\ \A i \in 1..Len(h) : sent[k + i] = h[i]
            /\ sent[Len(sent)] = Dict("user", arg.user_message)

C9_Witness ==
    /\ ret.fn = "persona_chat"
    /\ Len(file_to_text(uploaded_file)) > ChatContextLimit
    /\ Len(sent) = 5
    /\ Len(sent[2].content.v) = Len(CONTEXT_HEADER) + ChatContextLimit

====
